---------------------------- MODULE Spec2Model ----------------------------
(***************************************************************************)
(* gitlab-issues-data: main.go.  One run of the program: the environment   *)
(* is read and validated, the current user is resolved over REST, the      *)
(* project's timelogs are fetched over GraphQL, and one of the two         *)
(* aggregators folds them into float32 hour totals and log lines.          *)
(*                                                                         *)
(* Strings the program parses, formats, searches or orders are sequences   *)
(* of one-character strings; strings it only compares for equality are     *)
(* TLA+ strings.  Instants are hours since 1970-01-01T00:00Z.  float32     *)
(* values are <<m, e>> = m * 2^e with 2^23 <= m < 2^24, or Zero.           *)
(***************************************************************************)
EXTENDS Integers, Sequences, FiniteSets, TLC

VARIABLES
    env,                    \* the process environment (.env merged in)
    tz,                     \* offset of the "Local" location, hours east of UTC
    now,                    \* the instant time.Now() returns
    pc,                     \* position in main and the aggregators
    apiToken, projectId, gitlabHost, daysEnv, daysNum,
    getAllUsers, reportingIssue,
    currentUser,            \* username the REST API resolved
    timelogData,            \* Project.Issues.Nodes of the fetched tree
    date,                   \* the formatted cutoff date
    i, j,                   \* next issue and timelog of the nested loops
    totalSpentTime,
    totalDevTimePerUser, totalNonDevTimePerUser,
    totalDevSpentTime, totalNonDevSpentTime,
    netCalls,               \* network requests issued so far, with outcome
    out                     \* lines written through package log

vars == <<env, tz, now, pc, apiToken, projectId, gitlabHost, daysEnv, daysNum,
          getAllUsers, reportingIssue, currentUser, timelogData, date, i, j,
          totalSpentTime, totalDevTimePerUser, totalNonDevTimePerUser,
          totalDevSpentTime, totalNonDevSpentTime, netCalls, out>>

-----------------------------------------------------------------------------
(* Bounds of the model. *)

\* issues in a fetched project
MaxIssues == 2
\* timelogs in a fetched project (all issues together)
MaxLogs == 2
\* timelogs in the project whose durations exercise float32 rounding
MaxFloatLogs == 3

-----------------------------------------------------------------------------
(* Characters and strings. *)

DigitChars == <<"0", "1", "2", "3", "4", "5", "6", "7", "8", "9">>

IsDigit(c) == \E k \in 1..10 : DigitChars[k] = c

DigitVal(c) == (CHOOSE k \in 1..10 : DigitChars[k] = c) - 1

\* byte value of the characters that occur in a formatted date
CharCode(c) == IF c = "-" THEN 45 ELSE 48 + DigitVal(c)

RECURSIVE StrLess(_, _)
\* Go's < on strings: byte-wise lexicographic
StrLess(a, b) ==
    IF b = <<>> THEN FALSE
    ELSE IF a = <<>> THEN TRUE
    ELSE IF CharCode(Head(a)) # CharCode(Head(b))
         THEN CharCode(Head(a)) < CharCode(Head(b))
         ELSE StrLess(Tail(a), Tail(b))

\* Go's >= on strings
StrGE(a, b) == ~StrLess(a, b)

\* a Contains that finds no empty substring
ContainsNonEmpty(s, substr) ==
    /\ substr # <<>>
    /\ \E k \in 1..Len(s) :
          /\ k + Len(substr) - 1 <= Len(s)
          /\ SubSeq(s, k, k + Len(substr) - 1) = substr

\* strings.Contains(s, substr)
Contains(s, substr) ==
    \E k \in 1..(Len(s) + 1) :
        /\ k + Len(substr) - 1 <= Len(s)
        /\ SubSeq(s, k, k + Len(substr) - 1) = substr

RECURSIVE ParseDigits(_, _)
ParseDigits(s, acc) ==
    IF s = <<>> THEN acc
    ELSE ParseDigits(Tail(s), acc * 10 + DigitVal(Head(s)))

\* strconv.Atoi: an optional sign, then one or more decimal digits
\* (the strings of the model are short enough never to leave int's range)
Atoi(s) ==
    LET signed == s # <<>> /\ Head(s) \in {"+", "-"}
        body == IF signed THEN Tail(s) ELSE s
    IN  IF body = <<>> \/ \E k \in 1..Len(body) : ~IsDigit(body[k])
        THEN [ok |-> FALSE, n |-> 0]
        ELSE [ok |-> TRUE,
              n |-> IF signed /\ Head(s) = "-"
                    THEN 0 - ParseDigits(body, 0)
                    ELSE ParseDigits(body, 0)]

RECURSIVE Digits(_)
\* decimal digits of n >= 0
Digits(n) ==
    IF n < 10 THEN <<DigitChars[n + 1]>>
    ELSE Digits(n \div 10) \o <<DigitChars[(n % 10) + 1]>>

RECURSIVE ZeroPad(_, _)
ZeroPad(s, width) == IF Len(s) >= width THEN s ELSE ZeroPad(<<"0">> \o s, width)

\* time's appendInt(b, x, width): sign, then the digits padded to width
AppendInt(x, width) ==
    IF x < 0 THEN <<"-">> \o ZeroPad(Digits(0 - x), width)
    ELSE ZeroPad(Digits(x), width)

-----------------------------------------------------------------------------
(* The proleptic Gregorian calendar of package time. *)

IsLeap(y) == y % 4 = 0 /\ (y % 100 # 0 \/ y % 400 = 0)

DaysIn(y, m) ==
    IF m = 2 THEN (IF IsLeap(y) THEN 29 ELSE 28)
    ELSE IF m \in {4, 6, 9, 11} THEN 30 ELSE 31

\* days from 1970-01-01 to the civil date y-m-d
DaysFromCivil(y, m, d) ==
    LET yy == IF m <= 2 THEN y - 1 ELSE y
        era == yy \div 400
        yoe == yy - era * 400
        mp == (m + 9) % 12
        doy == (153 * mp + 2) \div 5 + d - 1
        doe == yoe * 365 + yoe \div 4 - yoe \div 100 + doy
    IN  era * 146097 + doe - 719468

\* the civil date of day z (days from 1970-01-01)
CivilFromDays(z) ==
    LET zz == z + 719468
        era == zz \div 146097
        doe == zz - era * 146097
        yoe == (doe - doe \div 1460 + doe \div 36524 - doe \div 146096) \div 365
        doy == doe - (365 * yoe + yoe \div 4 - yoe \div 100)
        mp == (5 * doy + 2) \div 153
        d == doy - (153 * mp + 2) \div 5 + 1
        m == IF mp < 10 THEN mp + 3 ELSE mp - 9
        y == yoe + era * 400 + (IF m <= 2 THEN 1 ELSE 0)
    IN  [year |-> y, month |-> m, day |-> d]

\* the zero time.Time: January 1, year 1, 00:00 UTC
ZeroTime == DaysFromCivil(1, 1, 1) * 24

\* time.Parse(time.RFC3339, s).  A timestamp string is the record of its
\* fields; a field out of range fails the parse, which returns the zero Time.
ParseRFC3339(s) ==
    IF /\ s.year \in 0..9999
       /\ s.month \in 1..12
       /\ s.day \in 1..DaysIn(s.year, s.month)
       /\ s.hour \in 0..23
       /\ s.zone \in -23..23
    THEN [ok |-> TRUE,
          t |-> DaysFromCivil(s.year, s.month, s.day) * 24 + s.hour - s.zone]
    ELSE [ok |-> FALSE, t |-> ZeroTime]

\* day (from 1970-01-01) of the instant t on the wall clock of offset off
DayIn(t, off) == (t + off) \div 24

\* Time.Format("2006-01-02") of a time whose wall-clock day is z
FormatDate(z) ==
    LET c == CivilFromDays(z)
    IN  AppendInt(c.year, 4) \o <<"-">> \o AppendInt(c.month, 2)
            \o <<"-">> \o AppendInt(c.day, 2)

\* the date of the instant in UTC, the conversion to local time left out
LocalSpentAtUTC(s, off) == FormatDate(DayIn(ParseRFC3339(s).t, 0))

\* spentAt.In(local).Format("2006-01-02"); the parse error is dropped
LocalSpentAt(s, off) == FormatDate(DayIn(ParseRFC3339(s).t, off))

\* time.Now().AddDate(0, 0, -daysNum).Format("2006-01-02")
CutoffDate(t, off, n) == FormatDate(DayIn(t, off) - n)

-----------------------------------------------------------------------------
(* float32, round to nearest even.  Only finite values >= 0 occur. *)

RECURSIVE Pow2(_)
Pow2(n) == IF n = 0 THEN 1 ELSE 2 * Pow2(n - 1)

Zero == <<0, 0>>

RECURSIVE Norm(_, _)
\* m * 2^e with m < 2^24, brought to 2^23 <= m
Norm(m, e) ==
    IF m = 0 THEN Zero
    ELSE IF m < 8388608 THEN Norm(2 * m, e - 1)
    ELSE <<m, e>>

RECURSIVE BitLen(_)
BitLen(m) == IF m = 0 THEN 0 ELSE 1 + BitLen(m \div 2)

\* the float32 nearest to m * 2^e (+ a positive amount below one unit of m
\* when sticky), ties to even
Round(m, e, sticky) ==
    LET d == BitLen(m) - 24
    IN  IF d <= 0 THEN Norm(m, e)
        ELSE LET q == m \div Pow2(d)
                 r == m % Pow2(d)
                 half == Pow2(d - 1)
                 up == \/ r > half
                       \/ r = half /\ (sticky \/ q % 2 = 1)
                 q1 == IF up THEN q + 1 ELSE q
             IN  IF q1 = 16777216 THEN <<8388608, e + d + 1>>
                 ELSE <<q1, e + d>>

\* float32(n) of an int 0 <= n < 2^30
FromInt(n) == Round(n, 0, FALSE)

RECURSIVE LongDiv(_, _, _, _)
\* k more quotient bits of r / mb after the bits q
LongDiv(r, mb, q, k) ==
    IF k = 0 THEN <<q, r>>
    ELSE IF r >= mb THEN LongDiv(2 * (r - mb), mb, 2 * q + 1, k - 1)
    ELSE LongDiv(2 * r, mb, 2 * q, k - 1)

\* a / b in float32, b # 0
FDiv(a, b) ==
    IF a = Zero THEN Zero
    ELSE LET qr == LongDiv(a[1], b[1], 0, 26)
         IN  Round(qr[1], a[2] - b[2] - 25, qr[2] # 0)

\* a + b in float32
FAdd(a, b) ==
    IF a = Zero THEN b
    ELSE IF b = Zero THEN a
    ELSE LET hi == IF a[2] >= b[2] THEN a ELSE b
             lo == IF a[2] >= b[2] THEN b ELSE a
             sh == hi[2] - lo[2]
         IN  IF sh > 26 THEN hi
             ELSE LET lo8 == lo[1] * 8
                      p == Pow2(sh)
                  IN  Round(hi[1] * 8 + lo8 \div p, hi[2] - 3, lo8 % p # 0)

\* float32(timelog.TimeSpent) / 3600
Hours(timeSpent) == FDiv(FromInt(timeSpent), FromInt(3600))

-----------------------------------------------------------------------------
(* map[string]float32 *)

EmptyMap == [u \in {} |-> Zero]

\* m[k], the zero value when k is no key
Get(m, k) == IF k \in DOMAIN m THEN m[k] ELSE Zero

\* m[k] += v
AddTo(m, k, v) ==
    [u \in DOMAIN m \cup {k} |-> IF u = k THEN FAdd(Get(m, k), v) ELSE m[u]]

\* the orders in which range may visit the keys of a map
Orders(S) ==
    {o \in [1..Cardinality(S) -> S] :
        \A a, b \in 1..Cardinality(S) : a # b => o[a] # o[b]}

RECURSIVE SumInOrder(_, _, _)
\* total += time over the keys in the order o, starting from acc
SumInOrder(m, o, acc) ==
    IF o = <<>> THEN acc
    ELSE SumInOrder(m, Tail(o), FAdd(acc, m[Head(o)]))

-----------------------------------------------------------------------------
(* The world outside the process: environments, the server's projects. *)

Users == {"alice", "bob"}

\* the user a personal access token belongs to
TokenOwner(token) == IF token = "tok-bob" THEN "bob" ELSE "alice"

Tracking == <<"T", "R", "K">>

Titles == {<<"f", "i", "x">>, <<"s", "y", "n", "c", " ", "T", "R", "K">>}

Stamp(y, mo, d, h, z) == [year |-> y, month |-> mo, day |-> d, hour |-> h, zone |-> z]

Timelog(t, s, u) == [TimeSpent |-> t, SpentAt |-> s, Username |-> u]

\* the run happens on 2024-03-01 at 02:00 UTC
Today == DaysFromCivil(2024, 3, 1)

Clock == Today * 24 + 2

\* timelogs around the cutoff: two spellings of the instant that is midnight
\* of March 1 at +02:00, the day before, and the day after
DateKinds ==
    { Timelog(3600, Stamp(2024, 3, 1, 0, 2), "alice"),
      Timelog(1800, Stamp(2024, 2, 29, 22, 0), "alice"),
      Timelog(3600, Stamp(2024, 2, 29, 12, 0), "bob"),
      Timelog(1800, Stamp(2024, 3, 2, 12, 0), "bob") }

\* a timestamp that does not parse (month 13), and one that does
LegacyKinds ==
    { Timelog(3600, Stamp(2024, 13, 1, 0, 0), "alice"),
      Timelog(1800, Stamp(2024, 3, 1, 9, 0), "alice") }

\* durations whose hours are not exact in float32
FloatKinds ==
    { Timelog(1, Stamp(2024, 3, 1, 9, 0), "alice"),
      Timelog(1800, Stamp(2024, 3, 1, 9, 0), "alice") }

LogSeqs(kinds, n) == UNION {[1..k -> kinds] : k \in 0..n}

RECURSIVE Trees(_, _, _, _)
\* the issue lists of at most nIssues issues and nLogs timelogs over kinds,
\* the first issue numbered pos
Trees(kinds, nIssues, nLogs, pos) ==
    {<<>>} \cup
    (IF nIssues = 0 THEN {}
     ELSE UNION { UNION { { <<[IID |-> DigitChars[pos + 1], Title |-> t, Timelogs |-> ls]>>
                                \o rest :
                            rest \in Trees(kinds, nIssues - 1, nLogs - Len(ls), pos + 1) } :
                          ls \in LogSeqs(kinds, nLogs) } :
                  t \in Titles })

\* what the GraphQL endpoint may hold for a project path
ProjectTrees(path) ==
    IF path = "grp/dates" THEN Trees(DateKinds, MaxIssues, MaxLogs, 1)
    ELSE IF path = "grp/legacy" THEN Trees(LegacyKinds, MaxIssues, MaxLogs, 1)
    ELSE IF path = "grp/float" THEN Trees(FloatKinds, MaxIssues, MaxFloatLogs, 1)
    ELSE {<<>>}

Environ(dotenv, token, path, host, days, all, issue) ==
    [dotenv |-> dotenv, GITLAB_TOKEN |-> token, GITLAB_PROJECT_PATH |-> path,
     GITLAB_HOST |-> host, DAYS_NUM |-> days, ALL_USERS |-> all,
     GITLAB_REPORTING_ISSUE |-> issue]

Host == "https://gitlab.example.com"

\* environments main rejects
BadEnvs ==
    { Environ(TRUE, "", "grp/dates", Host, <<"1">>, "", <<>>),
      Environ(TRUE, "tok-alice", "", "", <<>>, "true", Tracking),
      Environ(FALSE, "", "", "", <<"x">>, "", <<>>),
      Environ(TRUE, "tok-alice", "grp/dates", Host, <<"2", "d">>, "", <<>>),
      Environ(TRUE, "tok-bob", "grp/dates", "", <<"-">>, "true", <<>>) }

\* environments main accepts
GoodEnvs ==
    { Environ(TRUE, "tok-alice", "grp/dates", "", <<>>, "", <<>>),
      Environ(FALSE, "tok-alice", "grp/dates", Host, <<"+", "1">>, "", Tracking),
      Environ(TRUE, "tok-bob", "grp/dates", Host, <<"0">>, "", <<>>),
      Environ(TRUE, "tok-alice", "grp/dates", Host, <<>>, "true", <<>>),
      Environ(TRUE, "tok-alice", "grp/dates", Host, <<"0">>, "true", Tracking),
      Environ(TRUE, "tok-bob", "grp/dates", "", <<"1">>, "1", Tracking),
      Environ(TRUE, "tok-alice", "grp/legacy", Host, <<"0">>, "", <<>>),
      Environ(TRUE, "tok-alice", "grp/legacy", Host, <<"1">>, "true", Tracking),
      Environ(TRUE, "tok-alice", "grp/legacy", Host, <<"8", "0", "0", "0", "0", "0">>, "", <<>>),
      Environ(TRUE, "tok-alice", "grp/legacy", Host, <<"8", "0", "0", "0", "0", "0">>, "true", Tracking),
      Environ(TRUE, "tok-alice", "grp/legacy", Host,
              <<"-", "3", "0", "0", "0", "0", "0", "0">>, "", <<>>),
      Environ(TRUE, "tok-alice", "grp/legacy", Host,
              <<"-", "3", "0", "0", "0", "0", "0", "0">>, "true", Tracking),
      Environ(TRUE, "tok-alice", "grp/float", Host, <<"0">>, "", <<>>),
      Environ(TRUE, "tok-alice", "grp/float", Host, <<"0">>, "true", Tracking) }

\* an environment west of UTC, where the run happens on the evening of
\* February 29
WestEnvs ==
    { Environ(TRUE, "tok-alice", "grp/dates", Host, <<"0">>, "", <<>>),
      Environ(TRUE, "tok-alice", "grp/dates", Host, <<"0">>, "true", Tracking) }

-----------------------------------------------------------------------------
(* The run. *)

Init ==
    /\ \/ env \in BadEnvs \cup GoodEnvs /\ tz = 2
       \/ env \in WestEnvs /\ tz = -5
    /\ now = Clock
    /\ pc = "load"
    /\ apiToken = "" /\ projectId = "" /\ gitlabHost = ""
    /\ daysEnv = <<>> /\ daysNum = 0
    /\ getAllUsers = "" /\ reportingIssue = <<>>
    /\ currentUser = ""
    /\ timelogData = <<>>
    /\ date = <<>>
    /\ i = 0 /\ j = 0
    /\ totalSpentTime = Zero
    /\ totalDevTimePerUser = EmptyMap /\ totalNonDevTimePerUser = EmptyMap
    /\ totalDevSpentTime = Zero /\ totalNonDevSpentTime = Zero
    /\ netCalls = <<>>
    /\ out = <<>>

Line(kind, text) == [kind |-> kind, text |-> text]

Locals == <<apiToken, projectId, gitlabHost, daysEnv, daysNum, getAllUsers,
            reportingIssue, currentUser, timelogData>>

Aggregates == <<date, i, j, totalSpentTime, totalDevTimePerUser,
                totalNonDevTimePerUser, totalDevSpentTime, totalNonDevSpentTime>>

World == <<env, tz, now>>

\* the message without the exit: main goes on with its next statement
FatalLogsOnly(msg) ==
    /\ out' = Append(out, Line("fatal", msg))
    /\ pc' = IF pc = "token" THEN "project"
             ELSE IF pc = "project" THEN "host"
             ELSE IF pc = "atoi" THEN "flags"
             ELSE IF pc = "client" THEN "user"
             ELSE IF pc = "user" THEN "fetch"
             ELSE "dispatch"

\* log.Fatal, log.Fatalf: the message, then os.Exit(1)
Fatal(msg) ==
    /\ out' = Append(out, Line("fatal", msg))
    /\ pc' = "fatal"

\* godotenv.Load and its error message
LoadEnv ==
    /\ pc = "load"
    /\ out' = IF env.dotenv THEN out
              ELSE Append(out, Line("info", "Could not load .env file"))
    /\ pc' = "token"
    /\ UNCHANGED <<World, Locals, Aggregates, netCalls>>

CheckToken ==
    /\ pc = "token"
    /\ apiToken' = env.GITLAB_TOKEN
    /\ IF apiToken' = ""
       THEN Fatal("GITLAB_TOKEN environment variable is not set")
       ELSE pc' = "project" /\ out' = out
    /\ UNCHANGED <<World, projectId, gitlabHost, daysEnv, daysNum, getAllUsers,
                   reportingIssue, currentUser, timelogData, Aggregates, netCalls>>

CheckProject ==
    /\ pc = "project"
    /\ projectId' = env.GITLAB_PROJECT_PATH
    /\ IF projectId' = ""
       THEN Fatal("GITLAB_PROJECT_PATH environment variable is not set")
       ELSE pc' = "host" /\ out' = out
    /\ UNCHANGED <<World, apiToken, gitlabHost, daysEnv, daysNum, getAllUsers,
                   reportingIssue, currentUser, timelogData, Aggregates, netCalls>>

DefaultHost ==
    /\ pc = "host"
    /\ IF env.GITLAB_HOST = ""
       THEN /\ gitlabHost' = "https://gitlab.com"
            /\ out' = Append(out, Line("info", "GITLAB_HOST is not set, using default"))
       ELSE gitlabHost' = env.GITLAB_HOST /\ out' = out
    /\ pc' = "days"
    /\ UNCHANGED <<World, apiToken, projectId, daysEnv, daysNum, getAllUsers,
                   reportingIssue, currentUser, timelogData, Aggregates, netCalls>>

DefaultDays ==
    /\ pc = "days"
    /\ IF env.DAYS_NUM = <<>>
       THEN /\ daysEnv' = <<"0">>
            /\ out' = Append(out, Line("info", "DAYS_NUM is not set, using default"))
       ELSE daysEnv' = env.DAYS_NUM /\ out' = out
    /\ pc' = "atoi"
    /\ UNCHANGED <<World, apiToken, projectId, gitlabHost, daysNum, getAllUsers,
                   reportingIssue, currentUser, timelogData, Aggregates, netCalls>>

ParseDays ==
    /\ pc = "atoi"
    /\ daysNum' = Atoi(daysEnv).n
    /\ IF ~Atoi(daysEnv).ok
       THEN Fatal("DAYS_NUM must be in integer")
       ELSE pc' = "flags" /\ out' = out
    /\ UNCHANGED <<World, apiToken, projectId, gitlabHost, daysEnv, getAllUsers,
                   reportingIssue, currentUser, timelogData, Aggregates, netCalls>>

ReadFlags ==
    /\ pc = "flags"
    /\ getAllUsers' = env.ALL_USERS
    /\ reportingIssue' = env.GITLAB_REPORTING_ISSUE
    /\ pc' = "client"
    /\ UNCHANGED <<World, apiToken, projectId, gitlabHost, daysEnv, daysNum,
                   currentUser, timelogData, Aggregates, netCalls, out>>

\* gitlab.NewClient fails when the base URL does not parse; which hosts do
\* is left open
NewClient ==
    /\ pc = "client"
    /\ \/ pc' = "user" /\ out' = out
       \/ Fatal("Failed to create client")
    /\ UNCHANGED <<World, Locals, Aggregates, netCalls>>

\* gitlabClient.Users.CurrentUser(): GET /user
CurrentUser ==
    /\ pc = "user"
    /\ \/ /\ netCalls' = Append(netCalls, [api |-> "rest", ok |-> TRUE])
          /\ currentUser' = TokenOwner(apiToken)
          /\ pc' = "fetch" /\ out' = out
       \/ /\ netCalls' = Append(netCalls, [api |-> "rest", ok |-> FALSE])
          /\ currentUser' = currentUser
          /\ Fatal("Failed to get current user")
    /\ UNCHANGED <<World, apiToken, projectId, gitlabHost, daysEnv, daysNum,
                   getAllUsers, reportingIssue, timelogData, Aggregates>>

\* a getTimelogs that runs the query again after an error
GetTimelogsRetrying ==
    /\ pc = "fetch"
    /\ \/ \E tree \in ProjectTrees(projectId) :
            /\ netCalls' = Append(netCalls, [api |-> "graphql", ok |-> TRUE])
            /\ timelogData' = tree
            /\ pc' = "dispatch" /\ out' = out
       \/ /\ Len(netCalls) < 3
          /\ netCalls' = Append(netCalls, [api |-> "graphql", ok |-> FALSE])
          /\ timelogData' = timelogData
          /\ pc' = "fetch" /\ out' = out
    /\ UNCHANGED <<World, apiToken, projectId, gitlabHost, daysEnv, daysNum,
                   getAllUsers, reportingIssue, currentUser, Aggregates>>

\* getTimelogs: one client.Run of the query; an error of the transport or
\* of the decoding is returned to main, which exits
GetTimelogs ==
    /\ pc = "fetch"
    /\ \/ \E tree \in ProjectTrees(projectId) :
            /\ netCalls' = Append(netCalls, [api |-> "graphql", ok |-> TRUE])
            /\ timelogData' = tree
            /\ pc' = "dispatch" /\ out' = out
       \/ /\ netCalls' = Append(netCalls, [api |-> "graphql", ok |-> FALSE])
          /\ timelogData' = timelogData
          /\ Fatal("Failed to execute query")
    /\ UNCHANGED <<World, apiToken, projectId, gitlabHost, daysEnv, daysNum,
                   getAllUsers, reportingIssue, currentUser, Aggregates>>

-----------------------------------------------------------------------------
(* The aggregators. *)

RECURSIVE Seek(_, _, _)
\* the position of the nested range loops at or after timelog b of issue a:
\* the next timelog there is, or past the last issue
Seek(tree, a, b) ==
    IF a > Len(tree) THEN <<a, 1>>
    ELSE IF b <= Len(tree[a].Timelogs) THEN <<a, b>>
    ELSE Seek(tree, a + 1, 1)

\* the if with == in place of >=
UserIncludedOnCutoff(localSpentAt, cutoff, username, target) ==
    localSpentAt = cutoff /\ username = target

\* the condition of getUserSpentTime's if
UserIncluded(localSpentAt, cutoff, username, target) ==
    StrGE(localSpentAt, cutoff) /\ username = target

\* the condition of getAllUsersSpentTime's outer if
AllIncluded(localSpentAt, cutoff) == StrGE(localSpentAt, cutoff)

\* the inner if with the arguments of Contains exchanged
IsTrackingSwapped(title, trackingIssue) == Contains(trackingIssue, title)

\* the condition of getAllUsersSpentTime's inner if
IsTracking(title, trackingIssue) == Contains(title, trackingIssue)

\* the two branches main ends with
Dispatch ==
    /\ pc = "dispatch"
    /\ pc' = IF getAllUsers = "" THEN "user_loop" ELSE "all_loop"
    /\ date' = CutoffDate(now, tz, daysNum)
    /\ i' = Seek(timelogData, 1, 1)[1]
    /\ j' = Seek(timelogData, 1, 1)[2]
    /\ totalSpentTime' = Zero
    /\ totalDevTimePerUser' = EmptyMap
    /\ totalNonDevTimePerUser' = EmptyMap
    /\ UNCHANGED <<World, Locals, totalDevSpentTime, totalNonDevSpentTime,
                   netCalls, out>>

\* one turn of getUserSpentTime's inner loop
UserTimelog ==
    /\ pc = "user_loop"
    /\ i <= Len(timelogData)
    /\ LET issue == timelogData[i]
           timelog == issue.Timelogs[j]
           localSpentAt == LocalSpentAt(timelog.SpentAt, tz)
       IN  IF UserIncluded(localSpentAt, date, timelog.Username, currentUser)
           THEN /\ totalSpentTime' = FAdd(totalSpentTime, Hours(timelog.TimeSpent))
                /\ out' = Append(out, [kind |-> "entry",
                                       hours |-> Hours(timelog.TimeSpent),
                                       at |-> localSpentAt,
                                       iid |-> issue.IID,
                                       title |-> issue.Title])
           ELSE UNCHANGED <<totalSpentTime, out>>
    /\ i' = Seek(timelogData, i, j + 1)[1]
    /\ j' = Seek(timelogData, i, j + 1)[2]
    /\ UNCHANGED <<World, Locals, pc, date, totalDevTimePerUser,
                   totalNonDevTimePerUser, totalDevSpentTime,
                   totalNonDevSpentTime, netCalls>>

\* the line getUserSpentTime ends with
UserTotal ==
    /\ pc = "user_loop"
    /\ i > Len(timelogData)
    /\ out' = Append(out, [kind |-> "total", since |-> date,
                           user |-> currentUser, hours |-> totalSpentTime])
    /\ pc' = "done"
    /\ UNCHANGED <<World, Locals, Aggregates, netCalls>>

\* one turn of getAllUsersSpentTime's inner loop
AllTimelog ==
    /\ pc = "all_loop"
    /\ i <= Len(timelogData)
    /\ LET issue == timelogData[i]
           timelog == issue.Timelogs[j]
           localSpentAt == LocalSpentAt(timelog.SpentAt, tz)
       IN  IF AllIncluded(localSpentAt, date)
           THEN /\ IF IsTracking(issue.Title, reportingIssue)
                   THEN /\ totalNonDevTimePerUser' =
                              AddTo(totalNonDevTimePerUser, timelog.Username,
                                    Hours(timelog.TimeSpent))
                        /\ UNCHANGED totalDevTimePerUser
                   ELSE /\ totalDevTimePerUser' =
                              AddTo(totalDevTimePerUser, timelog.Username,
                                    Hours(timelog.TimeSpent))
                        /\ UNCHANGED totalNonDevTimePerUser
                /\ out' = Append(out, [kind |-> "entry",
                                       hours |-> Hours(timelog.TimeSpent),
                                       at |-> localSpentAt,
                                       user |-> timelog.Username,
                                       iid |-> issue.IID,
                                       title |-> issue.Title])
           ELSE UNCHANGED <<totalDevTimePerUser, totalNonDevTimePerUser, out>>
    /\ i' = Seek(timelogData, i, j + 1)[1]
    /\ j' = Seek(timelogData, i, j + 1)[2]
    /\ UNCHANGED <<World, Locals, pc, date, totalSpentTime, totalDevSpentTime,
                   totalNonDevSpentTime, netCalls>>

\* the lines of one range over a map, in the order o
PerUser(m, o) ==
    [k \in 1..Len(o) |-> [kind |-> "per_user", since |-> date,
                          user |-> o[k], hours |-> m[o[k]]]]

\* the dev summary: heading, one line per user in the order range yields
\* them, total
DevTotals ==
    /\ pc = "all_loop"
    /\ i > Len(timelogData)
    /\ \E o \in Orders(DOMAIN totalDevTimePerUser) :
          /\ totalDevSpentTime' = SumInOrder(totalDevTimePerUser, o, Zero)
          /\ out' = (out \o <<[kind |-> "heading", text |-> "-- Total dev time spent --"]>>
                         \o PerUser(totalDevTimePerUser, o))
                        \o <<[kind |-> "total_dev", hours |-> totalDevSpentTime']>>
    /\ pc' = "non_dev"
    /\ UNCHANGED <<World, Locals, date, i, j, totalSpentTime, totalDevTimePerUser,
                   totalNonDevTimePerUser, totalNonDevSpentTime, netCalls>>

\* the NON dev summary
NonDevTotals ==
    /\ pc = "non_dev"
    /\ \E o \in Orders(DOMAIN totalNonDevTimePerUser) :
          /\ totalNonDevSpentTime' = SumInOrder(totalNonDevTimePerUser, o, Zero)
          /\ out' = (out \o <<[kind |-> "heading", text |-> "-- Total NON dev time spent--"]>>
                         \o PerUser(totalNonDevTimePerUser, o))
                        \o <<[kind |-> "total_non_dev", hours |-> totalNonDevSpentTime']>>
    /\ pc' = "done"
    /\ UNCHANGED <<World, Locals, date, i, j, totalSpentTime, totalDevTimePerUser,
                   totalNonDevTimePerUser, totalDevSpentTime, netCalls>>

Next ==
    \/ LoadEnv
    \/ CheckToken
    \/ CheckProject
    \/ DefaultHost
    \/ DefaultDays
    \/ ParseDays
    \/ ReadFlags
    \/ NewClient
    \/ CurrentUser
    \/ GetTimelogs
    \/ Dispatch
    \/ UserTimelog
    \/ UserTotal
    \/ AllTimelog
    \/ DevTotals
    \/ NonDevTotals

Spec == Init /\ [][Next]_vars

-----------------------------------------------------------------------------
(* Vocabulary of the properties. *)

InUserLoop == pc = "user_loop" /\ i <= Len(timelogData)

InAllLoop == pc = "all_loop" /\ i <= Len(timelogData)

CurIssue == timelogData[i]

CurLog == timelogData[i].Timelogs[j]

\* the local calendar day of a timelog (the zero time's when its stamp does
\* not parse) and of the cutoff, as day numbers
LogDay(timelog) == DayIn(ParseRFC3339(timelog.SpentAt).t, tz)

CutoffDay == DayIn(now, tz) - daysNum

FourDigitYear(z) == CivilFromDays(z).year \in 0..9999

\* the step wrote a per-entry line
EntryWritten == Len(out') = Len(out) + 1 /\ out'[Len(out')].kind = "entry"

Quiet == out' = out

Entries == SelectSeq(out, LAMBDA l : l.kind = "entry")

AggregatorKinds == {"entry", "total", "heading", "per_user", "total_dev", "total_non_dev"}

AggregatorOutput == \E k \in 1..Len(out) : out[k].kind \in AggregatorKinds

AggregatorPcs == {"user_loop", "all_loop", "non_dev", "done"}

RECURSIVE FoldHours(_, _)
\* acc + h1 + h2 + ... in float32, left to right
FoldHours(hs, acc) ==
    IF hs = <<>> THEN acc ELSE FoldHours(Tail(hs), FAdd(acc, Head(hs)))

Mar1 == <<"2", "0", "2", "4", "-", "0", "3", "-", "0", "1">>

Feb29 == <<"2", "0", "2", "4", "-", "0", "2", "-", "2", "9">>

-----------------------------------------------------------------------------
(* C1 *)

\* C1 as stated: in single-user mode a timelog is included if and only if
\* its local date EQUALS the cutoff date and its username is the target's.
C1_EqualsCutoff ==
    [][InUserLoop =>
          (EntryWritten <=> (LogDay(CurLog) = CutoffDay /\ CurLog.Username = currentUser))]_vars

\* C1 amended: in single-user mode a timelog is included if and only if its
\* formatted local date compares >= the formatted cutoff date (for dates
\* with four-digit years: the local date is on or after the cutoff) and its
\* username is the target's; an included timelog adds its hours to the
\* total and writes its line, any other changes neither.
C1_SinceCutoff ==
    [][InUserLoop =>
          /\ EntryWritten <=>
                /\ StrGE(FormatDate(LogDay(CurLog)), FormatDate(CutoffDay))
                /\ CurLog.Username = currentUser
          /\ (FourDigitYear(CutoffDay) /\ FourDigitYear(LogDay(CurLog))) =>
                (EntryWritten <=>
                    (LogDay(CurLog) >= CutoffDay /\ CurLog.Username = currentUser))
          /\ EntryWritten =>
                totalSpentTime' = FAdd(totalSpentTime, Hours(CurLog.TimeSpent))
          /\ ~EntryWritten => (Quiet /\ totalSpentTime' = totalSpentTime)]_vars

\* a single-user run ended having included a timelog dated after the cutoff
\* and having passed over another
C1_Witness ==
    /\ pc = "done" /\ getAllUsers = ""
    /\ \E k \in 1..Len(out) : out[k].kind = "entry" /\ out[k].at # date
    /\ Len(Entries) = 1
    /\ Len(timelogData) = 1 /\ Len(timelogData[1].Timelogs) = 2

-----------------------------------------------------------------------------
(* C2 *)

\* C2: in multi-user mode a timelog of any user is included if and only if
\* its local calendar date is on or after today - N.
C2_SinceCutoffAllUsers ==
    [][InAllLoop => (EntryWritten <=> LogDay(CurLog) >= CutoffDay)]_vars

-----------------------------------------------------------------------------
(* C3 *)

\* sub occurs in s
Occurs(sub, s) ==
    \E k \in 0..(Len(s) - Len(sub)) : \A n \in 1..Len(sub) : s[k + n] = sub[n]

\* the map after is the map before with h added under u and nothing else
OnlyAdded(before, after, u, h) ==
    /\ DOMAIN after = DOMAIN before \cup {u}
    /\ after[u] = FAdd(Get(before, u), h)
    /\ \A v \in DOMAIN before : v # u => after[v] = before[v]

\* C3: in multi-user mode every included timelog is added to exactly one
\* bucket: under its user in the tracking (non-dev) map when the issue
\* title contains the configured substring, under its user in the dev map
\* otherwise; the other map and the other users' entries stay as they are.
C3_OneBucket ==
    [][(InAllLoop /\ EntryWritten) =>
          IF Occurs(reportingIssue, CurIssue.Title)
          THEN /\ OnlyAdded(totalNonDevTimePerUser, totalNonDevTimePerUser',
                            CurLog.Username, Hours(CurLog.TimeSpent))
               /\ totalDevTimePerUser' = totalDevTimePerUser
          ELSE /\ OnlyAdded(totalDevTimePerUser, totalDevTimePerUser',
                            CurLog.Username, Hours(CurLog.TimeSpent))
               /\ totalNonDevTimePerUser' = totalNonDevTimePerUser]_vars

\* a multi-user run that filled both buckets, for different users
C3_Witness ==
    /\ pc = "done" /\ reportingIssue = Tracking
    /\ DOMAIN totalDevTimePerUser = {"alice"}
    /\ DOMAIN totalNonDevTimePerUser = {"bob"}

-----------------------------------------------------------------------------
(* C4 *)

\* C4: the total of a user does not depend on the order in which the
\* timelogs are traversed: folding the included timelogs' hours in any
\* order gives the total the run printed.
C4_OrderIndependent ==
    (pc = "done" /\ getAllUsers = "") =>
        \A o \in Orders(1..Len(Entries)) :
            FoldHours([k \in 1..Len(Entries) |-> Entries[o[k]].hours], Zero)
                = totalSpentTime

-----------------------------------------------------------------------------
(* C5 *)

\* DAYS_NUM is set and is no decimal integer
NotInteger(s) ==
    /\ s # <<>>
    /\ LET body == IF s[1] \in {"+", "-"} THEN SubSeq(s, 2, Len(s)) ELSE s
       IN  body = <<>> \/ \E k \in 1..Len(body) : body[k] \notin {DigitChars[n] : n \in 1..10}

FetchFailed == \E k \in 1..Len(netCalls) : ~netCalls[k].ok

\* C5: a missing token or project path, a DAYS_NUM that is no integer, or a
\* failed network call ends the run in the fatal state at the step that
\* finds it: after a configuration error no network call is made, after a
\* configuration or fetch error no aggregator line is written and nothing
\* follows the fatal message; an absent host or day count falls back to
\* https://gitlab.com and 0.
C5_FatalStopsRun ==
    /\ env.GITLAB_TOKEN = "" => pc \in {"load", "token", "fatal"}
    /\ env.GITLAB_PROJECT_PATH = "" => pc \in {"load", "token", "project", "fatal"}
    /\ NotInteger(env.DAYS_NUM) =>
          pc \in {"load", "token", "project", "host", "days", "atoi", "fatal"}
    /\ (env.GITLAB_TOKEN = "" \/ env.GITLAB_PROJECT_PATH = "" \/ NotInteger(env.DAYS_NUM)) =>
          (netCalls = <<>> /\ ~AggregatorOutput)
    /\ FetchFailed =>
          /\ pc = "fatal"
          /\ ~netCalls[Len(netCalls)].ok
          /\ \A k \in 1..(Len(netCalls) - 1) : netCalls[k].ok
    /\ pc = "fatal" =>
          /\ out # <<>> /\ out[Len(out)].kind = "fatal"
          /\ \A k \in 1..(Len(out) - 1) : out[k].kind = "info"
          /\ timelogData = <<>>
    /\ (env.GITLAB_HOST = "" /\ pc \notin {"load", "token", "project", "host", "fatal"}) =>
          gitlabHost = "https://gitlab.com"
    /\ (env.DAYS_NUM = <<>> /\ pc \notin {"load", "token", "project", "host", "days", "atoi", "fatal"}) =>
          daysNum = 0
    /\ (pc = "fatal" /\ env.GITLAB_TOKEN # "" /\ env.GITLAB_PROJECT_PATH # ""
            /\ ~NotInteger(env.DAYS_NUM)) =>
          out[Len(out)].text \in {"Failed to create client", "Failed to get current user",
                                  "Failed to execute query"}

\* a run that died on a DAYS_NUM that is no integer, after the host default
\* was taken
C5_Witness ==
    /\ pc = "fatal" /\ NotInteger(env.DAYS_NUM)
    /\ env.GITLAB_TOKEN # "" /\ env.GITLAB_PROJECT_PATH # ""

-----------------------------------------------------------------------------
(* C6 *)

\* C6: a timelog whose spentAt does not parse is skipped in both modes and
\* for every day count: it changes no total and no bucket and writes no
\* line.
C6_UnparsedSkipped ==
    [][((InUserLoop \/ InAllLoop) /\ ~ParseRFC3339(CurLog.SpentAt).ok) =>
          /\ Quiet
          /\ UNCHANGED <<totalSpentTime, totalDevTimePerUser, totalNonDevTimePerUser>>]_vars

-----------------------------------------------------------------------------
(* C7 *)

\* the two spellings of 2024-03-01T00:00:00+02:00
MidnightSpellings == {Stamp(2024, 3, 1, 0, 2), Stamp(2024, 2, 29, 22, 0)}

\* C7: timelogs are filtered on the local calendar date of their instant.
\* Both spellings of the instant that is midnight of March 1 at +02:00
\* (22:00 of February 29 in UTC) are dated March 1 where local time is
\* +02:00 and February 29 where it is -05:00, whatever offset they are
\* written in; the cutoff is the local date of the run, which started at
\* 02:00 UTC of March 1, minus N days; so with N = 0 or 1 such a timelog of
\* the right user is included.
C7_LocalCalendarDate ==
    /\ [](pc \in {"user_loop", "all_loop"} /\ daysNum = 0 =>
             date = (IF tz = 2 THEN Mar1 ELSE Feb29))
    /\ [](pc \in {"user_loop", "all_loop"} /\ daysNum = 1 /\ tz = 2 => date = Feb29)
    /\ [][((InUserLoop \/ InAllLoop) /\ CurLog.SpentAt \in MidnightSpellings) =>
             /\ EntryWritten => out'[Len(out')].at = (IF tz = 2 THEN Mar1 ELSE Feb29)
             /\ (daysNum \in {0, 1} /\ (InUserLoop => CurLog.Username = currentUser)) =>
                   EntryWritten]_vars

\* a run at +02:00 with N = 0 that included both spellings of local midnight
C7_Witness ==
    /\ pc = "done" /\ tz = 2 /\ daysNum = 0
    /\ Len(Entries) = 2
    /\ Entries[1].at = Mar1 /\ Entries[2].at = Mar1
    /\ Entries[1].hours # Entries[2].hours
    /\ \A a \in 1..Len(timelogData) : \A b \in 1..Len(timelogData[a].Timelogs) :
          timelogData[a].Timelogs[b].SpentAt \in MidnightSpellings

-----------------------------------------------------------------------------
(* C8 *)

\* C8 as stated: a run makes one network call, followed by in-memory
\* iteration.
C8_OneNetworkCall == Len(netCalls) <= 1

\* C8 amended: a run makes at most two network calls, in this order and
\* each at most once: the REST lookup of the current user, then the timelog
\* fetch; neither is retried; aggregation starts only after both returned
\* successfully, exactly one of the two modes runs, and no network call
\* happens during or after aggregation.
C8_Sequential ==
    /\ [](/\ Len(netCalls) <= 2
          /\ Len(netCalls) >= 1 => netCalls[1].api = "rest"
          /\ Len(netCalls) = 2 => (netCalls[1].ok /\ netCalls[2].api = "graphql")
          /\ pc \in AggregatorPcs \cup {"dispatch"} =>
                (Len(netCalls) = 2 /\ netCalls[2].ok)
          /\ AggregatorOutput => pc \in AggregatorPcs
          /\ pc \in {"user_loop"} => getAllUsers = ""
          /\ pc \in {"all_loop", "non_dev"} => getAllUsers # ""
          /\ (\E k \in 1..Len(out) : out[k].kind = "total") =>
                /\ getAllUsers = ""
                /\ \A k \in 1..Len(out) : out[k].kind \in {"info", "entry", "total"}
          /\ (\E k \in 1..Len(out) : out[k].kind \in {"heading", "per_user", "total_dev", "total_non_dev"}) =>
                getAllUsers # ""
          /\ pc = "done" =>
                IF getAllUsers = ""
                THEN out[Len(out)].kind = "total"
                ELSE out[Len(out)].kind = "total_non_dev")
    /\ [][(pc \in AggregatorPcs) =>
             /\ netCalls' = netCalls
             /\ timelogData' = timelogData
             /\ pc' \in AggregatorPcs]_vars

\* a finished run: both calls made, the fetched issues aggregated
C8_Witness ==
    /\ pc = "done" /\ Len(netCalls) = 2 /\ Len(Entries) >= 1

-----------------------------------------------------------------------------
(* C9 *)

\* C9: in multi-user mode, after any prefix of the timelogs, the values of
\* the dev map plus the values of the non-dev map sum to the sum of the
\* hours of the timelogs included so far (all sums in float32, the maps in
\* any order, the timelogs in traversal order).
C9_BucketsSumToIncluded ==
    (pc = "all_loop") =>
        \A od \in Orders(DOMAIN totalDevTimePerUser) :
            \A on \in Orders(DOMAIN totalNonDevTimePerUser) :
                FAdd(SumInOrder(totalDevTimePerUser, od, Zero),
                     SumInOrder(totalNonDevTimePerUser, on, Zero))
                    = FoldHours([k \in 1..Len(Entries) |-> Entries[k].hours], Zero)

-----------------------------------------------------------------------------
(* C10 *)

\* C10: when multi-user mode runs with the empty tracking substring, every
\* included timelog is counted in the tracking (NON dev) bucket under its
\* user, the dev map stays empty and the dev total is 0.
C10_EmptySubstringAllTracking ==
    (getAllUsers # "" /\ reportingIssue = <<>> /\ pc \in AggregatorPcs) =>
        /\ totalDevTimePerUser = EmptyMap
        /\ totalDevSpentTime = Zero
        /\ DOMAIN totalNonDevTimePerUser = {Entries[k].user : k \in 1..Len(Entries)}
        /\ \A k \in 1..Len(out) : out[k].kind = "total_dev" => out[k].hours = Zero
        /\ \A k \in 1..Len(out) :
              (out[k].kind = "heading" /\ out[k].text = "-- Total dev time spent --") =>
                  out[k + 1].kind = "total_dev"

\* a multi-user run with no tracking substring that included timelogs of
\* both users
C10_Witness ==
    /\ pc = "done" /\ getAllUsers # "" /\ reportingIssue = <<>>
    /\ DOMAIN totalNonDevTimePerUser = {"alice", "bob"}

=============================================================================
